---- MODULE Spec2Model ----
(***************************************************************************)
(* Benzodiazepine taper schedule generator (taper_gen.py).                 *)
(*                                                                         *)
(* Doses are held in thousandths of a milligram (1 mg = 1000), tablet      *)
(* counts in half tablets (1 tablet = 2), calendar dates as proleptic      *)
(* Gregorian ordinals (date.toordinal()).  None is modelled as 0 for the   *)
(* final-hold arguments and as the empty tuple for the warning.            *)
(***************************************************************************)
EXTENDS Integers, Sequences, FiniteSets, TLC

(***************************************************************************)
(* Bounds of the model.                                                    *)
(***************************************************************************)
\* grid start doses 0.5 mg .. MaxStartHalfMg * 0.5 mg are requested
MaxStartHalfMg == 4
\* pill-solver targets 0.5 mg .. MaxTargetHalfMg * 0.5 mg
MaxTargetHalfMg == 60
\* converter doses 0.01 mg .. MaxConvertCentiMg * 0.01 mg
MaxConvertCentiMg == 100
\* totals handed to even_split directly: 0.00 .. 1.20 mg by hundredths
MaxEvenSplitCentiMg == 120
\* doses handed to split_dose directly: 0.02 .. 5.00 mg by fiftieths
MaxSplitDoseFiftieths == 250

(***************************************************************************)
(* Program constants.                                                      *)
(***************************************************************************)
min_dose_mg == 500
round_to == 500
max_steps == 50
\* datetime.date.max = 9999-12-31
DateMax == 3652059
\* 2100-12-31: current_date.year > 2100 iff the ordinal is larger
LastDayOf2100 == 767009

speed_options ==
    << [percent |-> 25,  interval_days |-> 28, label |-> "slow"],
       [percent |-> 50,  interval_days |-> 21, label |-> "standard"],
       [percent |-> 100, interval_days |-> 14, label |-> "fast"],
       [percent |-> 150, interval_days |-> 14, label |-> "very fast"],
       [percent |-> 200, interval_days |-> 7,  label |-> "ultra fast"] >>

SpeedLabels == { speed_options[i].label : i \in 1..Len(speed_options) }

\* milligrams of each drug equivalent to 10 mg diazepam
EQUIVALENTS_TO_DIAZEPAM_MG ==
    [ alprazolam |-> 500, clonazepam |-> 500, lorazepam |-> 1000,
      temazepam |-> 10000, oxazepam |-> 15000, chlordiazepoxide |-> 25000,
      diazepam |-> 10000 ]

AVAILABLE_STRENGTHS ==
    [ diazepam |-> <<10000, 5000, 2000>>,
      clonazepam |-> <<2000, 1000, 500>>,
      alprazolam |-> <<2000, 1000, 500, 250>> ]

(***************************************************************************)
(* Arithmetic helpers.                                                     *)
(***************************************************************************)
Abs(x) == IF x < 0 THEN 0 - x ELSE x

Max(a, b) == IF a >= b THEN a ELSE b

\* Python round(): n/d (d > 0) to the nearest integer, ties to even
RoundHalfEven(n, d) ==
    LET q == n \div d
        r == n % d
    IN  IF 2 * r < d THEN q
        ELSE IF 2 * r > d THEN q + 1
        ELSE IF q % 2 = 0 THEN q ELSE q + 1

\* round(x, 2) of a dose given as the fraction n/d of a thousandth of a mg
Round2Frac(n, d) == 10 * RoundHalfEven(n, 10 * d)

\* round(x, 2)
Round2(x) == Round2Frac(x, 1)

RECURSIVE MinSeq(_)
MinSeq(s) == IF Len(s) = 1 THEN s[1]
             ELSE LET m == MinSeq(Tail(s)) IN IF s[1] <= m THEN s[1] ELSE m

RECURSIVE SortedDesc(_)
\* sorted(xs, reverse=True)
SortedDesc(s) ==
    IF s = <<>> THEN <<>>
    ELSE LET i == CHOOSE j \in 1..Len(s) :
                    /\ \A k \in 1..Len(s) : s[j] >= s[k]
                    /\ \A k \in 1..(j-1) : s[k] < s[j]
             rest == [k \in 1..(Len(s)-1) |-> IF k < i THEN s[k] ELSE s[k+1]]
         IN  <<s[i]>> \o SortedDesc(rest)

(***************************************************************************)
(* Equivalency converter.                                                  *)
(***************************************************************************)
Medications == DOMAIN EQUIVALENTS_TO_DIAZEPAM_MG

\* str.lower() over the medication names requested
Lower(name) ==
    IF name = "Clonazepam" THEN "clonazepam"
    ELSE IF name = "Diazepam" THEN "diazepam"
    ELSE name

\* a converter that truncates to 2 decimals instead of rounding
convert_to_diazepam_Truncating(dose_mg, med_name) ==
    10 * ((dose_mg * 10000) \div (10 * EQUIVALENTS_TO_DIAZEPAM_MG[Lower(med_name)]))

\* round(dose_mg * (10.0 / table[med_name.lower()]), 2), for a name of the table
convert_to_diazepam(dose_mg, med_name) ==
    Round2Frac(dose_mg * 10000, EQUIVALENTS_TO_DIAZEPAM_MG[Lower(med_name)])

(***************************************************************************)
(* Pill combination solver.  A combination is a function from the          *)
(* strengths used to a count of half tablets.                              *)
(***************************************************************************)
EmptyCombo == [s \in {} |-> 0]

ComboGet(combo, s) == IF s \in DOMAIN combo THEN combo[s] ELSE 0

ComboPut(combo, s, n) ==
    [k \in (DOMAIN combo) \cup {s} |-> IF k = s THEN n ELSE combo[k]]

\* sum(k * v for k, v in combo.items()), in thousandths of a mg
RECURSIVE ComboSum(_, _)
ComboSum(combo, keys) ==
    IF keys = {} THEN 0
    ELSE LET k == CHOOSE x \in keys : TRUE
         IN  (k * combo[k]) \div 2 + ComboSum(combo, keys \ {k})

ComboMg(combo) == ComboSum(combo, DOMAIN combo)

\* the greedy loop: whole tablets from the largest strength down
RECURSIVE GreedyWhole(_, _, _)
GreedyWhole(strengths, remaining, combo) ==
    IF strengths = <<>> THEN [remaining |-> remaining, combo |-> combo]
    ELSE LET s == Head(strengths)
             count == remaining \div s
         IN  IF count > 0
             THEN GreedyWhole(Tail(strengths), Round2(remaining - count * s),
                              ComboPut(combo, s, 2 * count))
             ELSE GreedyWhole(Tail(strengths), remaining, combo)

\* a solver that takes the half tablet of the farthest strength (max for min)
ClosestStrength_Farthest(strengths, remaining) ==
    LET i == CHOOSE j \in 1..Len(strengths) :
                /\ \A k \in 1..Len(strengths) :
                      Abs(strengths[j] - remaining) >= Abs(strengths[k] - remaining)
                /\ \A k \in 1..(j-1) :
                      Abs(strengths[k] - remaining) < Abs(strengths[j] - remaining)
    IN  strengths[i]

\* min(strengths, key=lambda x: abs(x - remaining)): the first minimum
ClosestStrength(strengths, remaining) ==
    LET i == CHOOSE j \in 1..Len(strengths) :
                /\ \A k \in 1..Len(strengths) :
                      Abs(strengths[j] - remaining) <= Abs(strengths[k] - remaining)
                /\ \A k \in 1..(j-1) :
                      Abs(strengths[k] - remaining) > Abs(strengths[j] - remaining)
    IN  strengths[i]

get_pill_combination(dose_mg, med_name) ==
    LET strengths == SortedDesc(AVAILABLE_STRENGTHS[med_name])
        g == GreedyWhole(strengths, dose_mg, EmptyCombo)
    IN  IF 0 < g.remaining /\ g.remaining < MinSeq(strengths)
        THEN LET closest == ClosestStrength(strengths, g.remaining)
             IN  ComboPut(g.combo, closest, ComboGet(g.combo, closest) + 1)
        ELSE g.combo

can_achieve(dose, med_name) ==
    Round2(ComboMg(get_pill_combination(dose, med_name))) = dose

\* the values round(n/d, 2) can take in binary floating point: the nearest
\* hundredth, and either neighbour when n/d lies midway in decimal (the double
\* nearest the quotient then lies on one side or the other of the midpoint)
Round2Outcomes(n, d) ==
    IF 2 * (n % (10 * d)) = 10 * d
    THEN { 10 * (n \div (10 * d)), 10 * (n \div (10 * d)) + 10 }
    ELSE { Round2Frac(n, d) }

\* a split that drops the rounding remainder
EvenSplitFrom_NoRemainder(base, total, parts) == [i \in 1..parts |-> base]

\* split = [base] * parts; split[-1] += round(total - sum(split), 2)
EvenSplitFrom(base, total, parts) ==
    [i \in 1..parts |->
        IF i < parts THEN base ELSE base + Round2(total - parts * base)]

\* even_split(total, parts), for a total whose quotient is not at a decimal tie
even_split(total, parts) ==
    EvenSplitFrom(Round2Frac(total, parts), total, parts)

freq_map == [once |-> 1, bid |-> 2, tid |-> 3]

TimeLabels == <<"AM", "PM", "HS">>

assign_split_doses(dose_mg, med_name, frequency) ==
    LET parts == freq_map[frequency]
        doses == even_split(dose_mg, parts)
    IN  [t \in { TimeLabels[i] : i \in 1..parts } |->
            LET i == CHOOSE j \in 1..parts : TimeLabels[j] = t
            IN  get_pill_combination(doses[i], med_name)]

AllAchievable(dose_mg, med_name, option) ==
    LET doses == even_split(dose_mg, freq_map[option])
    IN  \A i \in 1..Len(doses) : can_achieve(doses[i], med_name)

\* a split_dose whose "auto" tries the two-way split before the whole dose
split_dose_BidFirst(dose_mg, med_name, frequency) ==
    IF frequency = "auto"
    THEN IF AllAchievable(dose_mg, med_name, "bid")
         THEN <<assign_split_doses(dose_mg, med_name, "bid"), "bid">>
         ELSE IF can_achieve(dose_mg, med_name)
         THEN <<assign_split_doses(dose_mg, med_name, "once"), "once">>
         ELSE <<assign_split_doses(dose_mg, med_name, "tid"), "tid">>
    ELSE <<assign_split_doses(dose_mg, med_name, frequency), frequency>>

\* split_dose returns (schedule, frequency)
split_dose(dose_mg, med_name, frequency) ==
    IF frequency = "auto"
    THEN IF dose_mg = Round2(ComboMg(get_pill_combination(dose_mg, med_name)))
         THEN <<assign_split_doses(dose_mg, med_name, "once"), "once">>
         ELSE IF AllAchievable(dose_mg, med_name, "bid")
         THEN <<assign_split_doses(dose_mg, med_name, "bid"), "bid">>
         ELSE IF AllAchievable(dose_mg, med_name, "tid")
         THEN <<assign_split_doses(dose_mg, med_name, "tid"), "tid">>
         ELSE <<assign_split_doses(dose_mg, med_name, "tid"), "tid">>
    ELSE <<assign_split_doses(dose_mg, med_name, frequency), frequency>>

(***************************************************************************)
(* Requests.                                                               *)
(***************************************************************************)
Frequencies == {"auto", "once", "bid", "tid"}

\* requested speed labels: the five of the ladder and one that is unknown
RequestedSpeeds == SpeedLabels \cup {"gentle"}

\* 2025-07-15, as in the module's __main__
StartDate2025 == DateMax - 2912612
\* 2100-12-01
StartDateDec2100 == LastDayOf2100 - 30
StartDates == {StartDate2025, StartDateDec2100, DateMax - 10, DateMax - 6}

\* off-grid, large and non-positive start doses (none at a rounding tie)
ExtraStartDoses == {0 - 1000, 0, 300, 504, 700, 800, 940, 7000, 20000}
StartDoses == { 500 * k : k \in 1..MaxStartHalfMg } \cup ExtraStartDoses

\* (final_hold_days, final_hold_frequency_days); 0 stands for None
FinalHolds == { <<0, 0>>, <<6, 3>>, <<6, 0>> }

PlanCall(med, dose, speed, d, freq, hold) ==
    [ fn |-> "create_bzd_taper_plan",
      starting_medication |-> med, starting_dose_mg |-> dose,
      taper_speed |-> speed, start_date |-> d, dosing_frequency |-> freq,
      final_hold_days |-> hold[1], final_hold_frequency_days |-> hold[2] ]

PlanCalls ==
    \* diazepam requests starting in 2025
    { PlanCall("diazepam", dose, speed, StartDate2025, freq, hold) :
        dose \in StartDoses, speed \in RequestedSpeeds,
        freq \in Frequencies, hold \in FinalHolds }
    \cup
    \* requests close to year 2100 and to date.max
    { PlanCall("diazepam", dose, speed, d, "auto", hold) :
        dose \in {500, 800, 20000}, speed \in RequestedSpeeds,
        d \in StartDates, hold \in {<<0, 0>>, <<6, 3>>} }
    \cup
    \* requests in another medication, a title-case and an unknown name
    { PlanCall(med, dose, speed, StartDate2025, "auto", <<6, 3>>) :
        med \in {"clonazepam", "Clonazepam", "oxazepam", "Diazepam", "zolpidem"},
        dose \in {40, 1000}, speed \in {"slow", "ultra fast"} }

\* direct calls of the converter and of the pill solver
ConvertCalls ==
    { [fn |-> "convert_to_diazepam", dose_mg |-> dose, med_name |-> med] :
        dose \in { 10 * c : c \in 1..MaxConvertCentiMg } \cup {504, 1254},
        med \in Medications \cup {"Clonazepam", "zolpidem"} }

CombinationCalls ==
    { [fn |-> "get_pill_combination", dose_mg |-> 500 * k, med_name |-> med] :
        k \in 1..MaxTargetHalfMg, med \in DOMAIN AVAILABLE_STRENGTHS }

EvenSplitCalls ==
    { [fn |-> "even_split", total |-> 10 * c, parts |-> n] :
        c \in 0..MaxEvenSplitCentiMg, n \in 1..3 }

\* doses on even hundredths, and 7.0 mg: none of their splits meets a decimal
\* tie, and the binary sum in even_split's last part stays on the decimal's
\* side of every tablet strength (at 6.02 mg it falls just below 2.0)
SplitDoseCalls ==
    { [fn |-> "split_dose", dose_mg |-> dose, med_name |-> med,
       frequency |-> freq] :
        dose \in { 20 * c : c \in 1..MaxSplitDoseFiftieths } \cup {7000},
        med \in DOMAIN AVAILABLE_STRENGTHS, freq \in Frequencies }

(***************************************************************************)
(* State.                                                                  *)
(***************************************************************************)
VARIABLES
    call,              \* the function called and its arguments
    pc,                \* position in the called function
    ret,               \* the value returned (pc = "done")
    raised,            \* the exception raised (pc = "raised")
    diazepam_dose_mg,  \* generate_percent_taper_schedule's locals ...
    speed_idx,
    warning,
    percent,
    interval_days,
    schedule,
    current_dose,
    current_day,
    current_date,
    week_number,
    step_count,
    tried,             \* history: the ladder indices attempted, in order
    iterations         \* history: entries into the body of the reduction loop

vars == << call, pc, ret, raised, diazepam_dose_mg, speed_idx, warning, percent,
           interval_days, schedule, current_dose, current_day, current_date,
           week_number, step_count, tried, iterations >>

hist == << tried, iterations >>

attempt == << percent, interval_days, schedule, current_dose, current_day,
              current_date, week_number, step_count >>

None == <<>>

InitLocals ==
    /\ ret = None
    /\ raised = None
    /\ diazepam_dose_mg = 0
    /\ speed_idx = 0
    /\ warning = None
    /\ percent = 0
    /\ interval_days = 0
    /\ schedule = <<>>
    /\ current_dose = 0
    /\ current_day = 0
    /\ current_date = 0
    /\ week_number = 0
    /\ step_count = 0
    /\ tried = <<>>
    /\ iterations = 0

Init ==
    /\ call \in PlanCalls \cup ConvertCalls \cup CombinationCalls
                \cup EvenSplitCalls \cup SplitDoseCalls
    /\ pc = "call"
    /\ InitLocals

(***************************************************************************)
(* Direct calls of convert_to_diazepam, get_pill_combination, even_split   *)
(* and split_dose.                                                         *)
(***************************************************************************)
ConvertUnsupported ==
    /\ pc = "call"
    /\ call.fn = "convert_to_diazepam"
    /\ Lower(call.med_name) \notin Medications
    /\ pc' = "raised"
    /\ raised' = <<"ValueError", "Unsupported medication">>
    /\ UNCHANGED << hist, call, ret, diazepam_dose_mg, speed_idx, warning, attempt >>

CallConvert ==
    /\ pc = "call"
    /\ call.fn = "convert_to_diazepam"
    /\ Lower(call.med_name) \in Medications
    /\ ret' = convert_to_diazepam(call.dose_mg, call.med_name)
    /\ pc' = "done"
    /\ UNCHANGED << hist, call, raised, diazepam_dose_mg, speed_idx, warning, attempt >>

CallCombination ==
    /\ pc = "call"
    /\ call.fn = "get_pill_combination"
    /\ ret' = get_pill_combination(call.dose_mg, call.med_name)
    /\ pc' = "done"
    /\ UNCHANGED << hist, call, raised, diazepam_dose_mg, speed_idx, warning, attempt >>

CallEvenSplit ==
    /\ pc = "call"
    /\ call.fn = "even_split"
    /\ \E base \in Round2Outcomes(call.total, call.parts) :
          ret' = EvenSplitFrom(base, call.total, call.parts)
    /\ pc' = "done"
    /\ UNCHANGED << hist, call, raised, diazepam_dose_mg, speed_idx, warning, attempt >>

CallSplitDose ==
    /\ pc = "call"
    /\ call.fn = "split_dose"
    /\ ret' = split_dose(call.dose_mg, call.med_name, call.frequency)
    /\ pc' = "done"
    /\ UNCHANGED << hist, call, raised, diazepam_dose_mg, speed_idx, warning, attempt >>

(***************************************************************************)
(* create_bzd_taper_plan and the head of generate_percent_taper_schedule.  *)
(***************************************************************************)
\* the diazepam-equivalent dose create_bzd_taper_plan passes on
ConvertedDose(starting_medication, starting_dose_mg) ==
    LET med_name == Lower(starting_medication)
    IN  IF med_name # "diazepam"
        THEN convert_to_diazepam(starting_dose_mg, med_name)
        ELSE starting_dose_mg

\* a head that starts every request at "standard"
InitialSpeedIdx_AlwaysStandard(taper_speed) == 1

\* index (from 0) of the requested label in speed_options, else 1
InitialSpeedIdx(taper_speed) ==
    IF taper_speed \in SpeedLabels
    THEN (CHOOSE i \in 1..Len(speed_options) :
              speed_options[i].label = taper_speed) - 1
    ELSE 1

UnsupportedMedication ==
    /\ pc = "call"
    /\ call.fn = "create_bzd_taper_plan"
    /\ Lower(call.starting_medication) # "diazepam"
    /\ Lower(call.starting_medication) \notin Medications
    /\ pc' = "raised"
    /\ raised' = <<"ValueError", "Unsupported medication">>
    /\ UNCHANGED << hist, call, ret, diazepam_dose_mg, speed_idx, warning, attempt >>

CreatePlan ==
    /\ pc = "call"
    /\ call.fn = "create_bzd_taper_plan"
    /\ \/ Lower(call.starting_medication) = "diazepam"
       \/ Lower(call.starting_medication) \in Medications
    /\ diazepam_dose_mg' =
           ConvertedDose(call.starting_medication, call.starting_dose_mg)
    /\ speed_idx' = InitialSpeedIdx(call.taper_speed)
    /\ warning' = None
    /\ pc' = "ladder"
    /\ UNCHANGED << hist, call, ret, raised, attempt >>

(***************************************************************************)
(* The speed ladder: while speed_idx < len(speed_options) ... else ...     *)
(***************************************************************************)
\* an attempt that goes on from where the abandoned one stopped
BeginAttempt_KeepsSchedule ==
    /\ pc = "ladder"
    /\ speed_idx < Len(speed_options)
    /\ percent' = speed_options[speed_idx + 1].percent
    /\ interval_days' = speed_options[speed_idx + 1].interval_days
    /\ current_dose' = diazepam_dose_mg
    /\ step_count' = 0
    /\ tried' = Append(tried, speed_idx)
    /\ pc' = "loop"
    /\ UNCHANGED << iterations, call, ret, raised, diazepam_dose_mg, speed_idx,
                    warning, schedule, current_day, current_date, week_number >>

\* the body of the outer while: a fresh attempt at speed_options[speed_idx]
BeginAttempt ==
    /\ pc = "ladder"
    /\ speed_idx < Len(speed_options)
    /\ percent' = speed_options[speed_idx + 1].percent
    /\ interval_days' = speed_options[speed_idx + 1].interval_days
    /\ schedule' = <<>>
    /\ current_dose' = diazepam_dose_mg
    /\ current_day' = 1
    /\ current_date' = call.start_date
    /\ week_number' = 1
    /\ step_count' = 0
    /\ tried' = Append(tried, speed_idx)
    /\ pc' = "loop"
    /\ UNCHANGED << iterations, call, ret, raised, diazepam_dose_mg, speed_idx, warning >>

\* the warning of the except branch; idx counts from 0
EscalationWarning(idx) ==
    << "Taper speed was automatically increased to",
       speed_options[idx + 1].label, max_steps >>

\* an else branch that leaves the last escalation warning in place
ExhaustedWarning_NotSet == EscalationWarning(Len(speed_options) - 1)

ExhaustedWarning ==
    << "Could not fit taper within max_steps steps, used fastest schedule",
       speed_options[Len(speed_options)].label, max_steps >>

\* the else branch of the while: every speed was abandoned
LadderExhausted ==
    /\ pc = "ladder"
    /\ speed_idx >= Len(speed_options)
    /\ warning' = ExhaustedWarning
    /\ pc' = "final"
    /\ UNCHANGED << hist, call, ret, raised, diazepam_dose_mg, speed_idx, attempt >>

(***************************************************************************)
(* One attempt: while current_dose > min_dose_mg ...                       *)
(***************************************************************************)
\* an end day that is one too late
StepEndDay_OffByOne(start_day, duration_days) == start_day + duration_days

StepEndDay(start_day, duration_days) == start_day + duration_days - 1

\* start + timedelta(days = duration_days - 1)
StepEndDate(start_date, duration_days) == start_date + (duration_days - 1)

\* f"Weeks {week_number}-{week_number + interval_days // 7 - 1}"
WeekLabel(week, duration_days) ==
    << "Weeks", week, week + (duration_days \div 7) - 1 >>

\* the step appended by an iteration of the reduction loop
ReductionStepRecord(dose, split) ==
    [ dose_mg |-> dose,
      duration_days |-> interval_days,
      start_day |-> current_day,
      end_day |-> StepEndDay(current_day, interval_days),
      start_date |-> current_date,
      end_date |-> StepEndDate(current_date, interval_days),
      week_label |-> WeekLabel(week_number, interval_days),
      dosing_frequency |-> split[2],
      dosing_schedule |-> split[1] ]

\* reduction, floor at min_dose_mg, rounding to the round_to grid
NextDose(dose, pct) ==
    LET reduced == Max(dose * (1000 - pct), min_dose_mg * 1000)
    IN  Round2(round_to * RoundHalfEven(reduced, 1000 * round_to))

\* a limit that lets one more step through
StepLimitExceeded_OneLate(count) == count > max_steps + 1

\* if step_count > max_steps
StepLimitExceeded(count) == count > max_steps

\* the dose left the loop: break out of the ladder
LoopExit ==
    /\ pc = "loop"
    /\ ~ (current_dose > min_dose_mg)
    /\ pc' = "final"
    /\ UNCHANGED << hist, call, ret, raised, diazepam_dose_mg, speed_idx, warning, attempt >>

\* step_count exceeds max_steps: the ValueError is caught, the ladder advances
TooManySteps ==
    /\ pc = "loop"
    /\ current_dose > min_dose_mg
    /\ StepLimitExceeded(step_count + 1)
    /\ step_count' = step_count + 1
    /\ iterations' = iterations + 1
    /\ speed_idx' = speed_idx + 1
    /\ warning' = EscalationWarning(speed_idx' - 1)
    /\ pc' = "ladder"
    /\ UNCHANGED << tried, call, ret, raised, diazepam_dose_mg, percent, interval_days,
                    schedule, current_dose, current_day, current_date, week_number >>

\* the step's end date is past date.max: the ValueError is re-raised
EndDateExceeded ==
    /\ pc = "loop"
    /\ current_dose > min_dose_mg
    /\ ~ StepLimitExceeded(step_count + 1)
    /\ (interval_days - 1) > DateMax - current_date
    /\ step_count' = step_count + 1
    /\ iterations' = iterations + 1
    /\ pc' = "raised"
    /\ raised' = <<"ValueError", "Taper schedule end date exceeds supported range.">>
    /\ UNCHANGED << tried, call, ret, diazepam_dose_mg, speed_idx, warning, percent,
                    interval_days, schedule, current_dose, current_day,
                    current_date, week_number >>

\* what every iteration that emits a step does up to the second date check
EmitStep ==
    /\ pc = "loop"
    /\ current_dose > min_dose_mg
    /\ ~ StepLimitExceeded(step_count + 1)
    /\ ~ ((interval_days - 1) > DateMax - current_date)
    /\ step_count' = step_count + 1
    /\ iterations' = iterations + 1
    /\ LET dose == Round2(current_dose)
           split == split_dose(dose, "diazepam", call.dosing_frequency)
       IN  schedule' = Append(schedule, ReductionStepRecord(dose, split))
    /\ current_dose' = NextDose(current_dose, percent)
    /\ current_day' = current_day + interval_days

\* the next step's start date is past date.max: re-raised
NextDateExceeded ==
    /\ EmitStep
    /\ interval_days > DateMax - current_date
    /\ pc' = "raised"
    /\ raised' = <<"ValueError", "Taper schedule date increment exceeds supported range.">>
    /\ UNCHANGED << tried, call, ret, diazepam_dose_mg, speed_idx, warning, percent,
                    interval_days, current_date, week_number >>

\* a handler that advances the ladder on the year-2100 error as well
Year2100Exceeded_Escalates ==
    /\ EmitStep
    /\ ~ (interval_days > DateMax - current_date)
    /\ current_date' = current_date + interval_days
    /\ current_date' > LastDayOf2100
    /\ speed_idx' = speed_idx + 1
    /\ warning' = EscalationWarning(speed_idx' - 1)
    /\ pc' = "ladder"
    /\ UNCHANGED << tried, call, ret, raised, diazepam_dose_mg, percent,
                    interval_days, week_number >>

\* the next step starts after year 2100: re-raised
Year2100Exceeded ==
    /\ EmitStep
    /\ ~ (interval_days > DateMax - current_date)
    /\ current_date' = current_date + interval_days
    /\ current_date' > LastDayOf2100
    /\ pc' = "raised"
    /\ raised' = <<"ValueError", "Taper schedule exceeds year 2100.">>
    /\ UNCHANGED << tried, call, ret, diazepam_dose_mg, speed_idx, warning, percent,
                    interval_days, week_number >>

\* a complete iteration of the reduction loop
ReductionStep ==
    /\ EmitStep
    /\ ~ (interval_days > DateMax - current_date)
    /\ current_date' = current_date + interval_days
    /\ ~ (current_date' > LastDayOf2100)
    /\ week_number' = week_number + (interval_days \div 7)
    /\ pc' = "loop"
    /\ UNCHANGED << tried, call, ret, raised, diazepam_dose_mg, speed_idx, warning,
                    percent, interval_days >>

(***************************************************************************)
(* The plateau step, the final hold and the return.                        *)
(***************************************************************************)
\* split_dose(min_dose_mg, frequency=dosing_frequency): (final_schedule, actual_freq)
FinalSplit == split_dose(min_dose_mg, "diazepam", call.dosing_frequency)

PlateauStepRecord ==
    [ dose_mg |-> min_dose_mg,
      duration_days |-> interval_days,
      start_day |-> current_day,
      end_day |-> StepEndDay(current_day, interval_days),
      start_date |-> current_date,
      end_date |-> StepEndDate(current_date, interval_days),
      note |-> <<"final daily dose">>,
      week_label |-> WeekLabel(week_number, interval_days),
      dosing_frequency |-> FinalSplit[2],
      dosing_schedule |-> FinalSplit[1] ]

HoldStepRecord ==
    [ dose_mg |-> min_dose_mg,
      duration_days |-> call.final_hold_days,
      frequency_days |-> call.final_hold_frequency_days,
      start_day |-> current_day,
      end_day |-> StepEndDay(current_day, call.final_hold_days),
      start_date |-> current_date,
      end_date |-> StepEndDate(current_date, call.final_hold_days),
      note |-> <<"final hold every", call.final_hold_frequency_days, "days">>,
      week_label |-> << "Weeks", week_number,
                        week_number + (call.final_hold_days \div 7) >>,
      dosing_frequency |-> FinalSplit[2],
      dosing_schedule |-> FinalSplit[1] ]

\* a test that looks at final_hold_days only
HoldRequested_DaysOnly(final_hold_days, final_hold_frequency_days) ==
    final_hold_days # 0

\* if final_hold_days and final_hold_frequency_days
HoldRequested(final_hold_days, final_hold_frequency_days) ==
    final_hold_days # 0 /\ final_hold_frequency_days # 0

FinalDateExceeded ==
    /\ pc = "final"
    /\ (interval_days - 1) > DateMax - current_date
    /\ pc' = "raised"
    /\ raised' = <<"ValueError", "Final taper step would exceed supported date range.">>
    /\ UNCHANGED << hist, call, ret, diazepam_dose_mg, speed_idx, warning, attempt >>

\* the plateau step is appended, then current_date += timedelta overflows
FinalDateOverflow ==
    /\ pc = "final"
    /\ ~ ((interval_days - 1) > DateMax - current_date)
    /\ current_date + interval_days > DateMax
    /\ schedule' = Append(schedule, PlateauStepRecord)
    /\ current_day' = current_day + interval_days
    /\ pc' = "raised"
    /\ raised' = <<"OverflowError", "date value out of range">>
    /\ UNCHANGED << hist, call, ret, diazepam_dose_mg, speed_idx, warning, percent,
                    interval_days, current_dose, current_date, week_number,
                    step_count >>

FinalStep ==
    /\ pc = "final"
    /\ ~ ((interval_days - 1) > DateMax - current_date)
    /\ ~ (current_date + interval_days > DateMax)
    /\ schedule' = Append(schedule, PlateauStepRecord)
    /\ current_day' = current_day + interval_days
    /\ current_date' = current_date + interval_days
    /\ week_number' = week_number + (interval_days \div 7)
    /\ pc' = "hold"
    /\ UNCHANGED << hist, call, ret, raised, diazepam_dose_mg, speed_idx, warning,
                    percent, interval_days, current_dose, step_count >>

HoldDateExceeded ==
    /\ pc = "hold"
    /\ HoldRequested(call.final_hold_days, call.final_hold_frequency_days)
    /\ (call.final_hold_days - 1) > DateMax - current_date
    /\ pc' = "raised"
    /\ raised' = <<"ValueError", "Final hold period would exceed supported date range.">>
    /\ UNCHANGED << hist, call, ret, diazepam_dose_mg, speed_idx, warning, attempt >>

\* return schedule, total_days, warning
Returned(sched) == << sched, sched[Len(sched)].end_day, warning >>

FinalHold ==
    /\ pc = "hold"
    /\ HoldRequested(call.final_hold_days, call.final_hold_frequency_days)
    /\ ~ ((call.final_hold_days - 1) > DateMax - current_date)
    /\ schedule' = Append(schedule, HoldStepRecord)
    /\ ret' = Returned(schedule')
    /\ pc' = "done"
    /\ UNCHANGED << hist, call, raised, diazepam_dose_mg, speed_idx, warning, percent,
                    interval_days, current_dose, current_day, current_date,
                    week_number, step_count >>

Return ==
    /\ pc = "hold"
    /\ ~ HoldRequested(call.final_hold_days, call.final_hold_frequency_days)
    /\ ret' = Returned(schedule)
    /\ pc' = "done"
    /\ UNCHANGED << hist, call, raised, diazepam_dose_mg, speed_idx, warning, attempt >>

Next ==
    \/ ConvertUnsupported
    \/ CallConvert
    \/ CallCombination
    \/ CallEvenSplit
    \/ CallSplitDose
    \/ UnsupportedMedication
    \/ CreatePlan
    \/ BeginAttempt
    \/ LadderExhausted
    \/ LoopExit
    \/ TooManySteps
    \/ EndDateExceeded
    \/ NextDateExceeded
    \/ Year2100Exceeded
    \/ ReductionStep
    \/ FinalDateExceeded
    \/ FinalDateOverflow
    \/ FinalStep
    \/ HoldDateExceeded
    \/ FinalHold
    \/ Return

Spec == Init /\ [][Next]_vars

(***************************************************************************)
(* Properties.                                                             *)
(***************************************************************************)
IsPlanCall == call.fn = "create_bzd_taper_plan"

\* create_bzd_taper_plan has returned: ret = (plan, total_days, warning)
PlanReturned == IsPlanCall /\ pc = "done"

IsHoldStep(s) == "frequency_days" \in DOMAIN s

IsPlateauStep(s) ==
    /\ "note" \in DOMAIN s
    /\ ~ IsHoldStep(s)
    /\ s.note = <<"final daily dose">>

\* milligram total of a dosing schedule (sum over its administration times)
RECURSIVE ScheduleSum(_, _)
ScheduleSum(sched, times) ==
    IF times = {} THEN 0
    ELSE LET t == CHOOSE x \in times : TRUE
         IN  ComboMg(sched[t]) + ScheduleSum(sched, times \ {t})

ScheduleMg(sched) == ScheduleSum(sched, DOMAIN sched)

\* the steps of a plan that are not the final-hold step
NonHoldSteps(plan) == SelectSeq(plan, LAMBDA s : ~ IsHoldStep(s))

\* the ladder index (from 0) at which the request started
RequestedIdx == InitialSpeedIdx(call.taper_speed)

\* every speed from the requested one on was abandoned
Exhausted == speed_idx >= Len(speed_options)

\* C1: in every returned plan the step doses are non-increasing and the last
\* step that is not the final hold has a dose of exactly min_dose_mg.
C1_DosesNonIncreasingToMinDose ==
    PlanReturned =>
        LET plan == ret[1]
            steps == NonHoldSteps(plan)
        IN  /\ \A i \in 1..(Len(plan) - 1) : plan[i].dose_mg >= plan[i+1].dose_mg
            /\ Len(steps) >= 1
            /\ steps[Len(steps)].dose_mg = min_dose_mg

\* C2: in every returned plan the dosing schedule of each step adds up to the
\* step's dose within 0.01 mg.
C2_ScheduleTotalsStepDose ==
    PlanReturned =>
        \A i \in 1..Len(ret[1]) :
            Abs(ScheduleMg(ret[1][i].dosing_schedule) - ret[1][i].dose_mg) <= 10

\* C3: a 20 mg start requested at "slow" returns a plan at the slow cadence
\* (28-day steps) whose non-hold doses decrease strictly down to 0.5 mg, all
\* of them multiples of 0.5 mg.
C3_Slow20MgStrictlyDecreasing ==
    (PlanReturned /\ diazepam_dose_mg = 20000 /\ call.taper_speed = "slow") =>
        LET steps == NonHoldSteps(ret[1])
        IN  /\ \A i \in 1..Len(steps) :
                  /\ steps[i].duration_days = speed_options[1].interval_days
                  /\ steps[i].dose_mg % round_to = 0
            /\ \A i \in 1..(Len(steps) - 1) : steps[i].dose_mg > steps[i+1].dose_mg
            /\ steps[Len(steps)].dose_mg = min_dose_mg

\* C4 as claimed: when the ladder is exhausted the returned plan is empty and
\* the warning is the terminal one.
C4_ExhaustedReturnsEmptyPlan ==
    (PlanReturned /\ Exhausted) =>
        /\ ret[1] = <<>>
        /\ ret[3] # None
        /\ ret[3][1] = "Could not fit taper within max_steps steps, used fastest schedule"

\* C4 as amended: when the ladder is exhausted the returned plan is the
\* abandoned attempt at the fastest speed, its max_steps reduction steps at the
\* fastest speed's interval followed by the plateau step (and the final hold,
\* when requested), and the warning is the terminal one naming the fastest speed.
C4_ExhaustedReturnsFastestAttempt ==
    (PlanReturned /\ Exhausted) =>
        LET steps == NonHoldSteps(ret[1])
            fastest == speed_options[Len(speed_options)]
        IN  /\ Len(steps) = max_steps + 1
            /\ \A i \in 1..Len(steps) : steps[i].duration_days = fastest.interval_days
            /\ \A i \in 1..max_steps : "note" \notin DOMAIN steps[i]
            /\ IsPlateauStep(steps[max_steps + 1])
            /\ steps[1].start_day = 1
            /\ steps[1].dose_mg = Round2(diazepam_dose_mg)
            /\ ret[3] # None
            /\ ret[3][1] = "Could not fit taper within max_steps steps, used fastest schedule"
            /\ ret[3][2] = fastest.label

\* a request for "slow" that exhausted the whole ladder has returned
C4_Witness ==
    /\ PlanReturned
    /\ Exhausted
    /\ call.taper_speed = "slow"
    /\ Len(ret[1]) = max_steps + 2

\* C5: when the requested speed was abandoned and a faster speed succeeded, the
\* plan is the one of that faster speed and the warning names that speed.
C5_WarningNamesSpeedUsed ==
    (PlanReturned /\ speed_idx > RequestedIdx /\ ~ Exhausted) =>
        LET steps == NonHoldSteps(ret[1])
            used == speed_options[speed_idx + 1]
        IN  /\ \A i \in 1..Len(steps) : steps[i].duration_days = used.interval_days
            /\ ret[3] # None
            /\ ret[3][2] = used.label

\* C6: in every returned plan each step covers durationDays days and dates,
\* and each step starts on the day and on the date after the previous step ends.
C6_DayAndDateRangesContiguous ==
    PlanReturned =>
        LET plan == ret[1]
        IN  /\ \A i \in 1..Len(plan) :
                  /\ plan[i].end_day - plan[i].start_day + 1 = plan[i].duration_days
                  /\ plan[i].end_date - plan[i].start_date + 1 = plan[i].duration_days
            /\ \A i \in 1..(Len(plan) - 1) :
                  /\ plan[i+1].start_day = plan[i].end_day + 1
                  /\ plan[i+1].start_date = plan[i].end_date + 1

\* a plan with reduction, plateau and hold steps returned after two escalations
C6_Witness ==
    /\ PlanReturned
    /\ speed_idx = RequestedIdx + 2
    /\ ~ Exhausted
    /\ Len(ret[1]) >= 3
    /\ IsHoldStep(ret[1][Len(ret[1])])

\* C7 as claimed: for every target on the 0.5 mg grid and the diazepam
\* strengths the combination adds up to the target within 0.01 mg.
C7_CombinationReconstructsTarget ==
    (call.fn = "get_pill_combination" /\ call.med_name = "diazepam" /\ pc = "done") =>
        Abs(ComboMg(ret) - call.dose_mg) <= 10

\* C7 as amended: for every target on the 0.5 mg grid and the diazepam
\* strengths the combination adds up to the target exactly when the target is
\* a whole number of milligrams, and is off by exactly 0.5 mg otherwise.
C7_CombinationExactOnWholeMg ==
    (call.fn = "get_pill_combination" /\ call.med_name = "diazepam" /\ pc = "done") =>
        IF call.dose_mg % 1000 = 0
        THEN ComboMg(ret) = call.dose_mg
        ELSE Abs(ComboMg(ret) - call.dose_mg) = 500

\* the 0.5 mg target solved as half a 2 mg tablet
C7_Witness ==
    /\ call.fn = "get_pill_combination"
    /\ call.med_name = "diazepam"
    /\ pc = "done"
    /\ call.dose_mg = 500
    /\ ComboMg(ret) = 1000

\* C8: a request with a non-positive dose or an unknown speed label is
\* rejected at once: no attempt is run and no plan is returned.
C8_InvalidInputRejected ==
    (IsPlanCall /\ (call.starting_dose_mg <= 0 \/ call.taper_speed \notin SpeedLabels)) =>
        /\ pc \in {"call", "raised"}
        /\ schedule = <<>>

\* C9: with a final-hold pair of positive values the plan ends with exactly one
\* hold step right after the plateau step, at min_dose_mg, lasting holdDays and
\* noted "every <everyNDays> days"; without such a pair the plateau step is last.
C9_FinalHoldStep ==
    PlanReturned =>
        LET plan == ret[1]
            n == Len(plan)
        IN  IF call.final_hold_days > 0 /\ call.final_hold_frequency_days > 0
            THEN /\ n >= 2
                 /\ IsHoldStep(plan[n])
                 /\ plan[n].dose_mg = min_dose_mg
                 /\ plan[n].duration_days = call.final_hold_days
                 /\ plan[n].note =
                        <<"final hold every", call.final_hold_frequency_days, "days">>
                 /\ IsPlateauStep(plan[n-1])
                 /\ \A i \in 1..(n-1) : ~ IsHoldStep(plan[i])
            ELSE /\ n >= 1
                 /\ IsPlateauStep(plan[n])
                 /\ \A i \in 1..n : ~ IsHoldStep(plan[i])

\* the request (6, 3) has returned a plan ending with a 6-day hold step
C9_Witness ==
    /\ PlanReturned
    /\ call.final_hold_days = 6
    /\ call.final_hold_frequency_days = 3
    /\ ret[1][Len(ret[1])].duration_days = 6
    /\ ret[1][Len(ret[1])].note = <<"final hold every", 3, "days">>

\* n/d is v after rounding to a multiple of 10 (2 decimals), ties to even
IsRounded2(v, n, d) ==
    /\ v % 10 = 0
    /\ Abs(v * d - n) <= 5 * d
    /\ Abs(v * d - n) = 5 * d => (v \div 10) % 2 = 0

\* C10: convert_to_diazepam returns dose * (10 / tableValue) rounded to 2
\* decimals (1.0 mg clonazepam gives 20.0 mg), and create_bzd_taper_plan passes
\* a diazepam dose on unchanged.
C10_ConversionToDiazepam ==
    /\ (call.fn = "convert_to_diazepam" /\ pc = "done") =>
          /\ IsRounded2(ret, call.dose_mg * 10000,
                        EQUIVALENTS_TO_DIAZEPAM_MG[Lower(call.med_name)])
          /\ (call.dose_mg = 1000 /\ call.med_name = "clonazepam") => ret = 20000
    /\ (IsPlanCall /\ pc \notin {"call", "raised"}) =>
          IF Lower(call.starting_medication) = "diazepam"
          THEN diazepam_dose_mg = call.starting_dose_mg
          ELSE IsRounded2(diazepam_dose_mg, call.starting_dose_mg * 10000,
                          EQUIVALENTS_TO_DIAZEPAM_MG[Lower(call.starting_medication)])

\* 1.0 mg oxazepam converted to 0.67 mg, a value that had to be rounded
C10_Witness ==
    /\ call.fn = "convert_to_diazepam"
    /\ pc = "done"
    /\ call.med_name = "oxazepam"
    /\ call.dose_mg = 1000
    /\ ret = 670

RECURSIVE SeqSum(_)
SeqSum(s) == IF s = <<>> THEN 0 ELSE s[1] + SeqSum(Tail(s))

\* v is a hundredth of a mg nearest to n/d
IsNearestHundredth(v, n, d) ==
    /\ v % 10 = 0
    /\ Abs(v * d - n) <= 5 * d

Achieves(dose, med_name) ==
    IsRounded2(dose, ComboMg(get_pill_combination(dose, med_name)), 1)

\* C12: under "auto", split_dose resolves to "once" exactly when the whole
\* dose is achievable, otherwise to "bid" exactly when both halves are,
\* otherwise to "tid"; 7.0 mg of diazepam resolves to "once" with one 5 mg and
\* one 2 mg tablet.
C12_AutoResolvesFrequency ==
    (call.fn = "split_dose" /\ pc = "done" /\ call.frequency = "auto") =>
        LET whole == Achieves(call.dose_mg, call.med_name)
            halves == Achieves(call.dose_mg \div 2, call.med_name)
        IN  /\ ret[2] = IF whole THEN "once" ELSE IF halves THEN "bid" ELSE "tid"
            /\ DOMAIN ret[1] = { TimeLabels[i] : i \in 1..freq_map[ret[2]] }
            /\ (call.dose_mg = 7000 /\ call.med_name = "diazepam") =>
                  ret = << [AM |-> (5000 :> 2 @@ 2000 :> 2)], "once" >>

\* a dose that is not achievable whole but is in two halves
C12_Witness ==
    /\ call.fn = "split_dose"
    /\ pc = "done"
    /\ call.frequency = "auto"
    /\ ~ Achieves(call.dose_mg, call.med_name)
    /\ ret[2] = "bid"

\* the call has returned or raised
Terminated == pc \in {"done", "raised"}

\* the reduction steps held in a schedule (neither plateau nor hold)
ReductionSteps(sched) == SelectSeq(sched, LAMBDA s : "note" \notin DOMAIN s)

\* C13 as stated: over all attempts of one request the reduction loop is
\* entered at most max_steps * 5 = 250 times.
C13_AtMost250Iterations ==
    IsPlanCall => iterations <= max_steps * Len(speed_options)

\* how far a position is from the end of the call
PcRank ==
    [call |-> 6, ladder |-> 5, loop |-> 4, final |-> 3, hold |-> 2,
     done |-> 0, raised |-> 0]

\* a variant: ladder entries not yet tried, then passes left in the attempt,
\* then the position
Variant ==
    1000 * (Len(speed_options) - Len(tried))
        + 10 * (max_steps + 1 - step_count) + PcRank[pc]

\* the counters of a request stay within the ladder
WithinLadder ==
    IsPlanCall =>
        /\ Len(ReductionSteps(schedule)) <= max_steps
        /\ Len(tried) <= Len(speed_options)
        /\ step_count <= max_steps + 1
        /\ iterations <= (max_steps + 1) * Len(tried)
        /\ pc \notin {"call", "raised"} =>
              iterations - (speed_idx - RequestedIdx)
                  <= max_steps * Len(speed_options)

\* C13: every call terminates (every step lowers a variant that is never
\* negative); an attempt emits at most max_steps reduction steps, at most 5
\* attempts are made, one per ladder entry, and the loop is entered at most
\* 51 times per attempt, 255 times in all, of which at most 250 emit a step.
C13_TerminatesWithinLadder ==
    /\ [](WithinLadder /\ Variant >= 0)
    /\ [][Variant' < Variant]_vars

\* a request that exhausted the ladder from "slow": 5 attempts, 255 entries
C13_Witness ==
    /\ PlanReturned
    /\ Len(tried) = Len(speed_options)
    /\ iterations = (max_steps + 1) * Len(speed_options)
    /\ Len(ReductionSteps(ret[1])) = max_steps

\* C14: in every iteration of the reduction loop that emits a step, the dose
\* computed for the next step is strictly smaller than the current dose.
C14_NextDoseStrictlySmaller ==
    [][(pc = "loop" /\ Len(schedule') = Len(schedule) + 1)
          => current_dose' < current_dose]_vars

\* the messages of the date errors raised inside the reduction loop
AttemptDateMessages ==
    { "Taper schedule end date exceeds supported range.",
      "Taper schedule date increment exceeds supported range.",
      "Taper schedule exceeds year 2100." }

\* an attempt aborted on a date condition and the caller got the error
DateErrorSurfaced ==
    /\ IsPlanCall
    /\ pc = "raised"
    /\ raised[2] \in AttemptDateMessages

\* the iteration about to run meets a date condition: its step would end, or
\* the next one start, past date.max or past year 2100
DateAbort ==
    /\ IsPlanCall
    /\ pc = "loop"
    /\ current_dose > min_dose_mg
    /\ step_count < max_steps
    /\ current_date + interval_days > LastDayOf2100

\* C15 as stated: while a faster speed remains in the ladder, a date
\* condition of an attempt is not surfaced to the caller.
C15_DateErrorOnlyAtFastestSpeed ==
    DateErrorSurfaced => speed_idx + 1 >= Len(speed_options)

\* C15: an attempt that meets a date condition is not retried: the
\* ValueError goes to the caller, whether or not a faster speed remains; the
\* ladder index and the warning stay as they were and nothing is returned.
C15_DateErrorIsRaised ==
    [][DateAbort =>
          /\ pc' = "raised"
          /\ raised'[1] = "ValueError"
          /\ raised'[2] \in AttemptDateMessages
          /\ speed_idx' = speed_idx
          /\ warning' = warning
          /\ tried' = tried
          /\ ret' = None]_vars

\* the year-2100 error reached the caller while faster speeds remained
C15_Witness ==
    /\ DateErrorSurfaced
    /\ raised[2] = "Taper schedule exceeds year 2100."
    /\ speed_idx + 1 < Len(speed_options)

\* the ladder position (from 0) of each speed label
LadderPosition ==
    [ l \in SpeedLabels |->
        CASE l = "slow" -> 0
          [] l = "standard" -> 1
          [] l = "fast" -> 2
          [] l = "very fast" -> 3
          [] l = "ultra fast" -> 4 ]

\* the attempts made so far went up the ladder one entry at a time
TriedInLadderOrder ==
    /\ \A i \in 1..Len(tried) : tried[i] = tried[1] + i - 1
    /\ \A i \in 1..Len(tried) : tried[i] \in 0..(Len(speed_options) - 1)
    /\ call.taper_speed \in SpeedLabels =>
          /\ \A i \in 1..Len(tried) : tried[i] >= LadderPosition[call.taper_speed]
          /\ tried # <<>> => tried[1] = LadderPosition[call.taper_speed]
          /\ pc \notin {"call", "raised"} =>
                speed_idx >= LadderPosition[call.taper_speed]

\* C16: the ladder index starts at the index of the requested label and only
\* ever increases, by exactly one per failed attempt: no slower speed is
\* attempted and no ladder entry is attempted twice.
C16_LadderIndexOnlyAdvances ==
    /\ [](IsPlanCall => TriedInLadderOrder)
    /\ [][(IsPlanCall /\ pc # "call" /\ speed_idx' # speed_idx) =>
             /\ speed_idx' = speed_idx + 1
             /\ pc = "loop"
             /\ pc' = "ladder"
             /\ tried # <<>>
             /\ tried[Len(tried)] = speed_idx]_vars

\* a request at "slow" that returned after trying slow, standard and fast
C16_Witness ==
    /\ PlanReturned
    /\ call.taper_speed = "slow"
    /\ tried = <<0, 1, 2>>

\* C17: no step of a returned plan (reduction, plateau or final hold) has a
\* start date or an end date after year 2100.
C17_NoStepAfterYear2100 ==
    PlanReturned =>
        \A i \in 1..Len(ret[1]) :
            /\ ret[1][i].start_date <= LastDayOf2100
            /\ ret[1][i].end_date <= LastDayOf2100

\* C18: no returned plan contains two consecutive steps, neither of them the
\* final hold, that both have a dose of min_dose_mg: the plateau is appended
\* only if the last reduction step's dose differs from min_dose_mg.
C18_NoDuplicateMinDoseStep ==
    PlanReturned =>
        LET plan == NonHoldSteps(ret[1])
        IN  \A i \in 1..(Len(plan) - 1) :
                ~ (plan[i].dose_mg = min_dose_mg /\ plan[i + 1].dose_mg = min_dose_mg)

\* C19: no step of a returned plan prescribes a dose greater than the
\* starting diazepam-equivalent dose.
C19_NoDoseAboveStartDose ==
    PlanReturned =>
        \A i \in 1..Len(ret[1]) : ret[1][i].dose_mg <= diazepam_dose_mg

\* the speed of the last attempt made
LastTried == speed_options[tried[Len(tried)] + 1]

\* C20: each attempt restarts from a clean state: in every returned plan with
\* at least one reduction step the first step has start_day 1, the requested
\* start date and the start dose rounded to 2 decimals, and every reduction
\* step and the plateau last as long as the interval of the last speed tried;
\* the plan holds the steps of one attempt only.
C20_PlanHoldsLastAttemptOnly ==
    (PlanReturned /\ ReductionSteps(ret[1]) # <<>>) =>
        LET plan == NonHoldSteps(ret[1])
        IN  /\ plan[1].start_day = 1
            /\ plan[1].start_date = call.start_date
            /\ IsRounded2(plan[1].dose_mg, diazepam_dose_mg, 1)
            /\ Lower(call.starting_medication) = "diazepam" =>
                  IsRounded2(plan[1].dose_mg, call.starting_dose_mg, 1)
            /\ \A i \in 1..Len(plan) :
                  plan[i].duration_days = LastTried.interval_days
            /\ Len(ReductionSteps(ret[1])) <= max_steps
            /\ Len(plan) = Len(ReductionSteps(ret[1])) + 1

\* a plan returned at "fast" after the attempts at "slow" and "standard"
\* were abandoned
C20_Witness ==
    /\ PlanReturned
    /\ ReductionSteps(ret[1]) # <<>>
    /\ tried = <<0, 1, 2>>
    /\ ret[1][1].duration_days = 14


====
